---- MODULE Spec2Model ----
(***************************************************************************)
(* securefs, LiteAESGCMCryptStream (sources/lite_stream.cpp): the block    *)
(* stream that stores every plaintext block of a file as                   *)
(* IV || ciphertext || tag behind a 32-byte masked session-key header.     *)
(*                                                                         *)
(* The underlying stream is a sequence of bytes (0..255).  Byte k of the   *)
(* C++ stream is element k+1 of the sequence.                              *)
(***************************************************************************)
EXTENDS Integers, Sequences, FiniteSets, TLC

VARIABLES
    under,          \* bytes of the underlying stream (*m_stream)
    m_open,         \* TRUE while a LiteAESGCMCryptStream instance exists
    m_session_key,  \* m_session_key
    m_id,           \* m_id
    m_iv_size,      \* m_iv_size
    m_block_size,   \* BlockBasedStream::m_block_size
    m_check,        \* m_check
    master,         \* history: the master key given to the constructor
    created,        \* history: master and session key of the open that wrote the header
    origin,         \* history: per block, the record last stored there and its writer
    ops,            \* history: number of changes made to the stream so far
    logical,        \* history: the logical size the engine's calls so far ask for
    last            \* the last call, its arguments and its outcome

vars == <<under, m_open, m_session_key, m_id, m_iv_size, m_block_size, m_check,
          master, created, origin, ops, logical, last>>

----------------------------------------------------------------------------
(* Bounds of the exploration.                                              *)

\* changes made to the underlying stream after the header is written:
\* write_block and adjust_logical_size calls, and changes made from outside
MaxOps == 3

----------------------------------------------------------------------------
(* Sizes fixed by the program.                                             *)

\* key_type: master key, session key and header
KeySize == 32
\* id_type
IdSize == 32
\* smallest and largest IV size the constructor accepts
MinIvSize == 12
MaxIvSize == 32
\* smallest block size the constructor accepts
MinBlockSize == 32

get_header_size == KeySize
get_mac_size == 16
get_iv_size(iv_size) == iv_size
get_block_size(block_size) == block_size
get_underlying_block_size(block_size, iv_size) ==
    block_size + iv_size + get_mac_size
get_auxiliary_buffer_size == IdSize + 8

----------------------------------------------------------------------------
(* Bytes and buffers.                                                      *)

Min(a, b) == IF a < b THEN a ELSE b
Max(a, b) == IF a < b THEN b ELSE a

Pow2(k) == CASE k = 0 -> 1 [] k = 1 -> 2 [] k = 2 -> 4 [] k = 3 -> 8
             [] k = 4 -> 16 [] k = 5 -> 32 [] k = 6 -> 64 [] OTHER -> 128

Bit(a, k) == (a \div Pow2(k)) % 2

\* a ^ b on two bytes
XorByte(a, b) ==
    IF a = 0 THEN b
    ELSE IF b = 0 THEN a
    ELSE LET x(k) == ((Bit(a, k) + Bit(b, k)) % 2) * Pow2(k)
         IN  x(0) + x(1) + x(2) + x(3) + x(4) + x(5) + x(6) + x(7)

Zeros(n) == [i \in 1..n |-> 0]

\* memset in the caller's style: n bytes of value v
Fill(n, v) == [i \in 1..n |-> v]

is_all_zeros(buf) == \A i \in 1..Len(buf) : buf[i] = 0

\* byte_xor(a, b, out, n): out[i] = a[i] ^ b[i]
byte_xor(a, b) == [i \in 1..Len(a) |-> XorByte(a[i], b[i])]

\* to_little_endian<uint64_t>(value, out): the 8 bytes of value, lowest first
\* (block numbers stay below 2^16 here, so bytes 3..8 are zero)
to_little_endian(value) ==
    [i \in 1..8 |-> CASE i = 1 -> value % 256
                      [] i = 2 -> (value \div 256) % 256
                      [] OTHER -> 0]

----------------------------------------------------------------------------
(* The underlying stream (StreamBase): a growable array of bytes.  A read  *)
(* past the end is short, a write or a resize past the end fills the gap   *)
(* with zero bytes.                                                        *)

\* m_stream->read(buf, off, len): the bytes read; their count is the return value
StreamRead(s, off, len) ==
    IF off >= Len(s) THEN <<>> ELSE SubSeq(s, off + 1, Min(Len(s), off + len))

\* m_stream->write(buf, off, Len(buf))
StreamWrite(s, buf, off) ==
    [i \in 1..Max(Len(s), off + Len(buf)) |->
        IF i > off /\ i <= off + Len(buf) THEN buf[i - off]
        ELSE IF i <= Len(s) THEN s[i] ELSE 0]

\* m_stream->resize(n)
StreamResize(s, n) == [i \in 1..n |-> IF i <= Len(s) THEN s[i] ELSE 0]

\* m_stream->size()
StreamSize(s) == Len(s)

----------------------------------------------------------------------------
(* AES-GCM.  The cipher is a keystream XORed onto the text (GCM encrypts   *)
(* in counter mode); the tag is a 16-byte keyed digest of IV, associated   *)
(* data and ciphertext.  The digest stands for GHASH: it changes with      *)
(* every single-bit change of its input, and decryption succeeds exactly   *)
(* when the stored tag is the digest of what is being decrypted.           *)

RECURSIVE WeightedSum(_, _)
WeightedSum(s, n) == IF n = 0 THEN 0 ELSE (WeightedSum(s, n - 1) + n * s[n]) % 251

Digest(s) == WeightedSum(s, Len(s))

GcmKeystream(key, iv, n) ==
    LET seed == 3 * Digest(key) + 5 * Digest(iv) + 1
    IN  [i \in 1..n |-> (seed + 7 * i) % 256]

GcmTag(key, iv, aad, ct) ==
    LET dk == Digest(key)
        di == Digest(iv)
        da == Digest(aad)
        dc == Digest(ct)
    IN  [j \in 1..get_mac_size |->
            CASE j = 1 -> dk
              [] j = 2 -> di
              [] j = 3 -> da
              [] j = 4 -> dc
              [] j = 5 -> Len(ct) % 256
              [] OTHER -> (j * (dk + di + da + dc) + Len(ct)) % 256]

\* aes_gcm_encrypt(plaintext, size, aad, aad_size, key, key_size, iv, iv_size,
\*                 mac, mac_size, ciphertext)
aes_gcm_encrypt(plaintext, aad, key, iv) ==
    LET ks == GcmKeystream(key, iv, Len(plaintext))
        ct == [i \in 1..Len(plaintext) |-> XorByte(plaintext[i], ks[i])]
    IN  [ciphertext |-> ct, mac |-> GcmTag(key, iv, aad, ct)]

\* aes_gcm_decrypt(ciphertext, size, aad, aad_size, key, key_size, iv, iv_size,
\*                 mac, mac_size, plaintext): the plaintext buffer is filled
\* whether or not the tag verifies
aes_gcm_decrypt(ciphertext, aad, key, iv, mac) ==
    LET ks == GcmKeystream(key, iv, Len(ciphertext))
    IN  [success   |-> mac = GcmTag(key, iv, aad, ciphertext),
         plaintext |-> [i \in 1..Len(ciphertext) |-> XorByte(ciphertext[i], ks[i])]]

----------------------------------------------------------------------------
(* LiteAESGCMCryptStream.                                                  *)

NoError == "none"
InvalidArgument == "InvalidArgument"
MessageVerification == "MessageVerification"

\* Outcome of a call: the value returned (NoReturn when it threw), the
\* caller's output buffer afterwards, and the exception thrown.
NoReturn == 0 - 1
Outcome(ret, out, err) == [ret |-> ret, out |-> out, err |-> err]

\* (variant: no upper limit on the IV size)
ctor_arguments_ok_no_upper(has_stream, block_size, iv_size) ==
    /\ ~(iv_size < MinIvSize)
    /\ has_stream
    /\ ~(block_size < MinBlockSize)

\* The constructor's three argument checks.
ctor_arguments_ok(has_stream, block_size, iv_size) ==
    /\ ~(iv_size < MinIvSize \/ iv_size > MaxIvSize)
    /\ has_stream
    /\ ~(block_size < MinBlockSize)

\* (variant: the session key is stored as it is)
ctor_new_header_unmasked(session_key, master_key) == session_key

\* rc == 0: the header stored for a fresh session key
ctor_new_header(session_key, master_key) == byte_xor(session_key, master_key)

\* rc == header.size(): the session key recovered from a stored header
ctor_recover_session_key(header, master_key) == byte_xor(header, master_key)

\* (variant: a header shorter than 32 bytes is taken for a new file)
Constructor_short_header(stream, has_stream, master_key, block_size, iv_size, random) ==
    IF ~ctor_arguments_ok(has_stream, block_size, iv_size)
    THEN [err |-> InvalidArgument, stream |-> stream, session_key |-> <<>>]
    ELSE LET header == StreamRead(stream, 0, KeySize)
             rc == Len(header)
         IN  IF rc < KeySize
             THEN [err |-> NoError,
                   stream |-> StreamWrite(stream, ctor_new_header(random, master_key), 0),
                   session_key |-> random]
             ELSE [err |-> NoError,
                   stream |-> stream,
                   session_key |-> ctor_recover_session_key(header, master_key)]

\* LiteAESGCMCryptStream(stream, master_key, id, block_size, iv_size, check);
\* random is what generate_random yields for the session key.
\* Gives the exception, the stream afterwards and m_session_key.
Constructor(stream, has_stream, master_key, block_size, iv_size, random) ==
    IF ~ctor_arguments_ok(has_stream, block_size, iv_size)
    THEN [err |-> InvalidArgument, stream |-> stream, session_key |-> <<>>]
    ELSE LET header == StreamRead(stream, 0, KeySize)
             rc == Len(header)
         IN  IF rc = 0
             THEN [err |-> NoError,
                   stream |-> StreamWrite(stream, ctor_new_header(random, master_key), 0),
                   session_key |-> random]
             ELSE IF rc = KeySize
             THEN [err |-> NoError,
                   stream |-> stream,
                   session_key |-> ctor_recover_session_key(header, master_key)]
             ELSE [err |-> InvalidArgument, stream |-> stream, session_key |-> <<>>]

\* (variant: the header is left out of the offset)
block_offset_without_header(block_number, block_size, iv_size) ==
    get_underlying_block_size(block_size, iv_size) * block_number

\* (variant: blocks are taken to be block_size bytes apart)
block_offset_by_block_size(block_number, block_size, iv_size) ==
    get_header_size + get_block_size(block_size) * block_number

\* Offset of block block_number in the underlying stream.
block_offset(block_number, block_size, iv_size) ==
    get_header_size + get_underlying_block_size(block_size, iv_size) * block_number

\* (variant: the block number is left out of the associated data)
make_aad_without_block(id, block_number) ==
    SubSeq(id \o to_little_endian(0), 1, get_auxiliary_buffer_size)

\* The associated data of a block: m_id || little-endian block number.
make_aad(id, block_number) ==
    SubSeq(id \o to_little_endian(block_number), 1, get_auxiliary_buffer_size)

\* (variant: only the IV is tested)
read_is_hole_by_iv(buffer, iv_size) == is_all_zeros(SubSeq(buffer, 1, iv_size))

\* (variant: no record is taken for a hole)
read_is_hole_never(buffer, iv_size) == FALSE

\* read_block: is the record read a sparse hole?
read_is_hole(buffer, iv_size) == is_all_zeros(buffer)

\* (variant: the test of the decryption's result is inverted)
read_must_throw_on_success(check, success) == check /\ success

\* (variant: the result of the authentication is enforced whatever m_check is)
read_must_throw_unchecked(check, success) == ~success

\* read_block: does the call throw after decryption?
read_must_throw(check, success) == check /\ ~success

\* (variant: a hole zeroes only the bytes it returns)
read_block_short_memset(stream, session_key, id, block_size, iv_size, check, block_number, output) ==
    LET ubs == get_underlying_block_size(block_size, iv_size)
        buffer == StreamRead(stream, block_offset(block_number, block_size, iv_size), ubs)
        rc == Len(buffer)
        out_size == rc - get_iv_size(iv_size) - get_mac_size
    IN  IF rc <= get_mac_size + get_iv_size(iv_size) THEN Outcome(0, output, NoError)
        ELSE IF rc > ubs THEN Outcome(NoReturn, output, InvalidArgument)
        ELSE IF read_is_hole(buffer, iv_size)
        THEN Outcome(out_size, Zeros(out_size) \o SubSeq(output, out_size + 1, Len(output)),
                     NoError)
        ELSE LET dec == aes_gcm_decrypt(SubSeq(buffer, iv_size + 1, iv_size + out_size),
                                        make_aad(id, block_number), session_key,
                                        SubSeq(buffer, 1, iv_size),
                                        SubSeq(buffer, rc - get_mac_size + 1, rc))
                 out == dec.plaintext \o SubSeq(output, out_size + 1, Len(output))
             IN  IF read_must_throw(check, dec.success)
                 THEN Outcome(NoReturn, out, MessageVerification)
                 ELSE Outcome(out_size, out, NoError)

\* read_block(block_number, output) on an instance with the given members;
\* output is the caller's buffer (block_size bytes) before the call.
read_block(stream, session_key, id, block_size, iv_size, check, block_number, output) ==
    LET ubs == get_underlying_block_size(block_size, iv_size)
        buffer == StreamRead(stream, block_offset(block_number, block_size, iv_size), ubs)
        rc == Len(buffer)
        out_size == rc - get_iv_size(iv_size) - get_mac_size
    IN  IF rc <= get_mac_size + get_iv_size(iv_size)
        THEN Outcome(0, output, NoError)
        ELSE IF rc > ubs
        THEN Outcome(NoReturn, output, InvalidArgument)
        ELSE IF read_is_hole(buffer, iv_size)
        THEN Outcome(out_size, Zeros(get_block_size(block_size)), NoError)
        ELSE LET dec == aes_gcm_decrypt(
                            SubSeq(buffer, iv_size + 1, iv_size + out_size),
                            make_aad(id, block_number),
                            session_key,
                            SubSeq(buffer, 1, iv_size),
                            SubSeq(buffer, rc - get_mac_size + 1, rc))
                 out == dec.plaintext \o SubSeq(output, out_size + 1, Len(output))
             IN  IF read_must_throw(check, dec.success)
                 THEN Outcome(NoReturn, out, MessageVerification)
                 ELSE Outcome(out_size, out, NoError)

\* (variant: the first sample is taken as the IV)
write_iv_accepted_first(iv) == TRUE

\* write_block: does the do-while loop stop at this sample of the IV?
write_iv_accepted(iv) == ~is_all_zeros(iv)

\* (variant: the tag is stored before the ciphertext)
write_record_tag_first(session_key, id, block_number, input, iv) ==
    LET enc == aes_gcm_encrypt(input, make_aad(id, block_number), session_key, iv)
    IN  iv \o enc.mac \o enc.ciphertext

\* write_block: the record IV || ciphertext || tag built in m_buffer.
write_record(session_key, id, block_number, input, iv) ==
    LET enc == aes_gcm_encrypt(input, make_aad(id, block_number), session_key, iv)
    IN  iv \o enc.ciphertext \o enc.mac

\* write_block(block_number, input, size), size = Len(input); iv is the
\* outcome of the generate_random loop, which ends on the first IV that is
\* not all zeros.  Gives the stream afterwards.
write_block(stream, session_key, id, block_size, iv_size, block_number, input, iv) ==
    StreamWrite(stream,
                write_record(session_key, id, block_number, input, iv),
                block_number * get_underlying_block_size(block_size, iv_size)
                    + get_header_size)

\* (variant: the header is counted as block data)
size_counting_header(stream, block_size, iv_size) ==
    LET underlying_size == StreamSize(stream)
    IN  IF underlying_size <= get_header_size
        THEN 0
        ELSE LET ubs == get_underlying_block_size(block_size, iv_size)
                 num_blocks == underlying_size \div ubs
                 residue == underlying_size % ubs
             IN  num_blocks * get_block_size(block_size)
                 + (IF residue > (get_iv_size(iv_size) + get_mac_size)
                    THEN residue - get_iv_size(iv_size) - get_mac_size
                    ELSE 0)

\* size()
size(stream, block_size, iv_size) ==
    LET underlying_size == StreamSize(stream)
    IN  IF underlying_size <= get_header_size
        THEN 0
        ELSE LET rest == underlying_size - get_header_size
                 ubs == get_underlying_block_size(block_size, iv_size)
                 num_blocks == rest \div ubs
                 residue == rest % ubs
             IN  num_blocks * get_block_size(block_size)
                 + (IF residue > (get_iv_size(iv_size) + get_mac_size)
                    THEN residue - get_iv_size(iv_size) - get_mac_size
                    ELSE 0)

\* adjust_logical_size: the argument handed to m_stream->resize.  In C++
\* the conditional operator binds weaker than + and >, so the expression is
\* (header + new_blocks * ubs + residue > 0) ? residue + iv + mac : 0.
adjust_resize_to(length, block_size, iv_size) ==
    LET new_blocks == length \div get_block_size(block_size)
        residue == length % get_block_size(block_size)
    IN  IF get_header_size
             + new_blocks * get_underlying_block_size(block_size, iv_size)
             + residue > 0
        THEN residue + get_iv_size(iv_size) + get_mac_size
        ELSE 0

\* adjust_logical_size(length): the stream afterwards
adjust_logical_size(stream, block_size, iv_size, length) ==
    StreamResize(stream, adjust_resize_to(length, block_size, iv_size))

----------------------------------------------------------------------------
(* The inputs the exploration draws from.                                  *)

Blocks == {0, 1}

KeyOf(seed) == [i \in 1..KeySize |-> (seed * i) % 256]
IdOf(seed) == [i \in 1..IdSize |-> (seed + i) % 256]

MasterKeys == {KeyOf(1), KeyOf(2)}
\* outcomes of generate_random(m_session_key)
RandomKeys == {KeyOf(5)}
Ids == {IdOf(1), IdOf(2)}
IvSizes == {MinIvSize}
BlockSizes == {MinBlockSize}

\* outcomes of one generate_random(m_buffer, iv_size)
RandomIvs(iv_size) ==
    { Zeros(iv_size),
      [i \in 1..iv_size |-> IF i = iv_size THEN 1 ELSE 0] }

WriteSizes(block_size) == {1, block_size}
\* plaintext of n bytes: byte i is step * i (all zeros for step 0)
Plaintext(step, n) == [i \in 1..n |-> (step * i) % 256]
OnePlaintext == {11}
TwoPlaintexts == {0, 11}

\* the caller's output buffer before read_block
CallerBuffer(block_size) == Fill(block_size, 170)

\* arguments of adjust_logical_size
LogicalLengths(block_size) ==
    { 0, 1, 4, 5, block_size - 1, block_size, block_size + 1, 2 * block_size }

----------------------------------------------------------------------------
(* State.                                                                  *)

NoRecord == [bytes |-> <<>>, id |-> <<>>, key |-> <<>>, block |-> NoReturn,
             off |-> 0, iv_size |-> 0, ubs |-> 0]
NoHeader == [master |-> <<>>, session |-> <<>>]

Call(op, block, arg, input, pre, outcome) ==
    [op |-> op, block |-> block, arg |-> arg, input |-> input, pre |-> pre,
     ret |-> outcome.ret, out |-> outcome.out, err |-> outcome.err]

Init ==
    /\ under = <<>>
    /\ m_open = FALSE
    /\ m_session_key = <<>>
    /\ m_id = <<>>
    /\ m_iv_size = 0
    /\ m_block_size = 0
    /\ m_check = FALSE
    /\ master = <<>>
    /\ created = NoHeader
    /\ origin = [b \in Blocks |-> NoRecord]
    /\ ops = 0
    /\ logical = 0
    /\ last = Call("init", NoReturn, 0, <<>>, 0, Outcome(0, <<>>, NoError))

\* new LiteAESGCMCryptStream(stream, master_key, id, block_size, iv_size, check)
Open(master_keys, ids, checks) ==
    /\ ~m_open
    /\ \E master_key \in master_keys, id \in ids, check \in checks,
          block_size \in BlockSizes, iv_size \in IvSizes, random \in RandomKeys :
        LET c == Constructor(under, TRUE, master_key, block_size, iv_size, random)
        IN  /\ under' = c.stream
            /\ m_open' = (c.err = NoError)
            /\ last' = Call("open", NoReturn, 0, master_key, Len(under),
                            Outcome(0, <<>>, c.err))
            /\ IF c.err = NoError
               THEN /\ m_session_key' = c.session_key
                    /\ m_id' = id
                    /\ m_iv_size' = iv_size
                    /\ m_block_size' = block_size
                    /\ m_check' = check
                    /\ master' = master_key
                    /\ created' = IF Len(under) = 0
                                  THEN [master |-> master_key, session |-> c.session_key]
                                  ELSE created
               ELSE UNCHANGED <<m_session_key, m_id, m_iv_size, m_block_size,
                                m_check, master, created>>
    /\ UNCHANGED <<origin, ops, logical>>

\* ~LiteAESGCMCryptStream()
Close ==
    /\ m_open
    /\ m_open' = FALSE
    /\ m_session_key' = <<>>
    /\ m_id' = <<>>
    /\ m_iv_size' = 0
    /\ m_block_size' = 0
    /\ m_check' = FALSE
    /\ master' = <<>>
    /\ last' = Call("close", NoReturn, 0, <<>>, Len(under), Outcome(0, <<>>, NoError))
    /\ UNCHANGED <<under, created, origin, ops, logical>>

\* flush()
Flush ==
    /\ m_open
    /\ last' = Call("flush", NoReturn, 0, <<>>, Len(under), Outcome(0, <<>>, NoError))
    /\ UNCHANGED <<under, m_open, m_session_key, m_id, m_iv_size, m_block_size,
                   m_check, master, created, origin, ops, logical>>

\* (variant: a read that finds no record extends the stream to the block's end)
ReadBlock_filling ==
    /\ m_open
    /\ \E block_number \in Blocks :
        LET r == read_block(under, m_session_key, m_id, m_block_size, m_iv_size,
                            m_check, block_number, CallerBuffer(m_block_size))
            end == block_offset(block_number + 1, m_block_size, m_iv_size)
        IN  /\ last' = Call("read_block", block_number, 0, <<>>, Len(under), r)
            /\ under' = IF r.ret = 0 THEN StreamResize(under, Max(Len(under), end))
                         ELSE under
    /\ UNCHANGED <<m_open, m_session_key, m_id, m_iv_size, m_block_size,
                   m_check, master, created, origin, ops, logical>>

\* read_block(block_number, output)
ReadBlock ==
    /\ m_open
    /\ \E block_number \in Blocks :
        last' = Call("read_block", block_number, 0, <<>>, Len(under),
                     read_block(under, m_session_key, m_id, m_block_size, m_iv_size,
                                m_check, block_number, CallerBuffer(m_block_size)))
    /\ UNCHANGED <<under, m_open, m_session_key, m_id, m_iv_size, m_block_size,
                   m_check, master, created, origin, ops, logical>>

\* write_block(block_number, input, size)
WriteBlock(steps) ==
    /\ m_open
    /\ ops < MaxOps
    /\ ops' = ops + 1
    /\ \E block_number \in Blocks, n \in WriteSizes(m_block_size) :
       \E step \in steps, iv \in RandomIvs(m_iv_size) :
        LET input == Plaintext(step, n) IN
        /\ write_iv_accepted(iv)
        /\ under' = write_block(under, m_session_key, m_id, m_block_size, m_iv_size,
                                block_number, input, iv)
        /\ origin' = [origin EXCEPT ![block_number] =
                        [bytes |-> write_record(m_session_key, m_id, block_number, input, iv),
                         id |-> m_id, key |-> m_session_key, block |-> block_number,
                         off |-> block_offset(block_number, m_block_size, m_iv_size),
                         iv_size |-> m_iv_size,
                         ubs |-> get_underlying_block_size(m_block_size, m_iv_size)]]
        /\ last' = Call("write_block", block_number, n, input, Len(under),
                        Outcome(0, <<>>, NoError))
    /\ UNCHANGED <<m_open, m_session_key, m_id, m_iv_size, m_block_size, m_check,
                   master, created, logical>>

\* size()
Size ==
    /\ m_open
    /\ last' = Call("size", NoReturn, 0, <<>>, Len(under),
                    Outcome(size(under, m_block_size, m_iv_size), <<>>, NoError))
    /\ UNCHANGED <<under, m_open, m_session_key, m_id, m_iv_size, m_block_size,
                   m_check, master, created, origin, ops, logical>>

\* adjust_logical_size(length)
AdjustLogicalSize ==
    /\ m_open
    /\ ops < MaxOps
    /\ ops' = ops + 1
    /\ \E length \in LogicalLengths(m_block_size) :
        /\ under' = adjust_logical_size(under, m_block_size, m_iv_size, length)
        /\ last' = Call("adjust_logical_size", NoReturn, length, <<>>, Len(under),
                        Outcome(0, <<>>, NoError))
    /\ UNCHANGED <<m_open, m_session_key, m_id, m_iv_size, m_block_size, m_check,
                   master, created, origin, logical>>

----------------------------------------------------------------------------
(* Changes made to the underlying file from outside the instance.          *)

\* the record last stored for block b is still in the stream, byte for byte
RecordStored(b) ==
    /\ origin[b] # NoRecord
    /\ StreamRead(under, origin[b].off, Len(origin[b].bytes)) = origin[b].bytes

FlipBitOf(byte, bit) ==
    IF Bit(byte, bit) = 1 THEN byte - Pow2(bit) ELSE byte + Pow2(bit)

\* offsets within a record of n bytes at which a bit is flipped: the last
\* byte of the IV, the first ciphertext byte, the last byte of the tag
FlipOffsets(n, iv_size) == {iv_size - 1, iv_size, n - 1}
FlipBits == {0, 7}

Outside(op, b) ==
    Call(op, b, 0, <<>>, Len(under), Outcome(0, <<>>, NoError))

\* one bit of the record stored for some block is flipped
FlipBit ==
    /\ ops < MaxOps
    /\ ops' = ops + 1
    /\ \E b \in Blocks :
        /\ RecordStored(b)
        /\ \E k \in FlipOffsets(Len(origin[b].bytes), origin[b].iv_size), bit \in FlipBits :
            under' = [under EXCEPT ![origin[b].off + k + 1] = FlipBitOf(@, bit)]
        /\ last' = Outside("flip", b)
    /\ UNCHANGED <<m_open, m_session_key, m_id, m_iv_size, m_block_size, m_check,
                   master, created, origin, logical>>

\* the IV of the record stored for some block is overwritten with zeros
ZeroIv ==
    /\ ops < MaxOps
    /\ ops' = ops + 1
    /\ \E b \in Blocks :
        /\ RecordStored(b)
        /\ under' = StreamWrite(under, Zeros(origin[b].iv_size), origin[b].off)
        /\ last' = Outside("zero_iv", b)
    /\ UNCHANGED <<m_open, m_session_key, m_id, m_iv_size, m_block_size, m_check,
                   master, created, origin, logical>>

\* the record stored for block i is copied, byte for byte, to block j
CopyRecord ==
    /\ ops < MaxOps
    /\ ops' = ops + 1
    /\ \E i \in Blocks :
       \E j \in Blocks \ {i} :
        /\ RecordStored(i)
        /\ LET off == get_header_size + origin[i].ubs * j
           IN  /\ under' = StreamWrite(under, origin[i].bytes, off)
               /\ origin' = [origin EXCEPT ![j] = [origin[i] EXCEPT !.off = off]]
        /\ last' = Outside("copy", j)
    /\ UNCHANGED <<m_open, m_session_key, m_id, m_iv_size, m_block_size, m_check,
                   master, created, logical>>

----------------------------------------------------------------------------
(* Specifications.                                                         *)

\* One file, one master key, one id: every call of the class.
Next ==
    \/ Open({KeyOf(1)}, {IdOf(1)}, BOOLEAN)
    \/ Close
    \/ Flush
    \/ ReadBlock
    \/ WriteBlock(TwoPlaintexts)
    \/ Size
    \/ AdjustLogicalSize

Spec == Init /\ [][Next]_vars

\* The file is reopened under either master key.
NextKeys ==
    \/ Open(MasterKeys, {IdOf(1)}, {TRUE})
    \/ Close
    \/ Flush
    \/ ReadBlock
    \/ WriteBlock(OnePlaintext)
    \/ Size
    \/ AdjustLogicalSize

SpecKeys == Init /\ [][NextKeys]_vars

\* The file is opened under either id, written, read, and changed from outside.
NextTamper ==
    \/ Open({KeyOf(1)}, Ids, BOOLEAN)
    \/ Close
    \/ ReadBlock
    \/ WriteBlock(OnePlaintext)
    \/ FlipBit
    \/ ZeroIv
    \/ CopyRecord

SpecTamper == Init /\ [][NextTamper]_vars

----------------------------------------------------------------------------
(* Vocabulary of the properties: the file layout of the format.            *)

\* offset of block b: header, then blocks of iv_size + block_size + 16 bytes
LayoutOffset(b) == 32 + b * (m_iv_size + m_block_size + 16)

\* the bytes a read of block b gets from the stream
StoredBlock(b) == StreamRead(under, LayoutOffset(b), m_iv_size + m_block_size + 16)

\* the header is the one written when the file was created
HeaderIntact ==
    /\ created # NoHeader
    /\ Len(under) >= 32
    /\ SubSeq(under, 1, 32) = byte_xor(created.session, created.master)

\* block_size zero bytes
ZeroBlock == Zeros(m_block_size)

----------------------------------------------------------------------------
(* C1: adjust_logical_size(L) resizes the underlying stream to             *)
(* 32 + q * underlying_block_size + (r > 0 ? r + iv_size + 16 : 0),        *)
(* q = L div block_size, r = L mod block_size.                             *)

C1_ResizeTarget ==
    last.op = "adjust_logical_size" =>
        LET q == last.arg \div m_block_size
            r == last.arg % m_block_size
        IN  Len(under) = 32 + q * (m_iv_size + m_block_size + 16)
                            + (IF r > 0 THEN r + m_iv_size + 16 ELSE 0)

(* C2: after adjust_logical_size(L), size() on the same instance is L.     *)

C2_SizeAfterAdjust ==
    last.op = "adjust_logical_size" =>
        size(under, m_block_size, m_iv_size) = last.arg

(* C3: while an instance is open, the stream holds at least 32 bytes and   *)
(* its first 32 bytes XORed with the master key are the session key.       *)

C3_HeaderKept ==
    m_open =>
        /\ Len(under) >= 32
        /\ byte_xor(SubSeq(under, 1, 32), master) = m_session_key

----------------------------------------------------------------------------
\* what read_block(b) gives on the instance as it stands
ReadNow(b) ==
    read_block(under, m_session_key, m_id, m_block_size, m_iv_size, m_check, b,
               CallerBuffer(m_block_size))

ReadsBack(b, n, input) ==
    LET r == ReadNow(b)
    IN  /\ r.err = NoError
        /\ r.ret = n
        /\ SubSeq(r.out, 1, n) = input

(* C4 as stated: write_block(b, P, n) followed at once by read_block(b)    *)
(* returns n and P, whatever the stream held before the write.             *)

C4_ReadYourWrites ==
    last.op = "write_block" => ReadsBack(last.block, last.arg, last.input)

\* the record just written ends its block: it is a full block, or the
\* stream did not reach beyond the record's end before the write
WrittenAtTail ==
    \/ last.arg = m_block_size
    \/ last.pre <= LayoutOffset(last.block) + m_iv_size + last.arg + 16

(* C4 amended: write_block(b, P, n) followed at once by read_block(b)      *)
(* returns n and P when n = block_size or the stream did not extend beyond *)
(* the end of the written record before the write.                         *)

C4_ReadYourWritesAtTail ==
    (last.op = "write_block" /\ WrittenAtTail) =>
        ReadsBack(last.block, last.arg, last.input)

\* a short record written over older bytes of the same block, at the tail
C4_Witness ==
    /\ last.op = "write_block"
    /\ WrittenAtTail
    /\ last.arg < m_block_size
    /\ last.pre > LayoutOffset(last.block)
    /\ last.input # Zeros(last.arg)
    /\ ReadsBack(last.block, last.arg, last.input)

----------------------------------------------------------------------------
(* C10: size() returns 0 when the stream has at most 32 bytes, and         *)
(* otherwise (U' div ubs) * block_size + (residue > iv_size + 16 ?         *)
(* residue - iv_size - 16 : 0) with U' = U - 32, residue = U' mod ubs: a   *)
(* function of the stream's length alone.                                  *)

LogicalSizeOf(U) ==
    IF U <= 32 THEN 0
    ELSE LET ubs == m_iv_size + m_block_size + 16
             residue == (U - 32) % ubs
         IN  ((U - 32) \div ubs) * m_block_size
             + (IF residue > m_iv_size + 16 THEN residue - m_iv_size - 16 ELSE 0)

C10_SizeOfLength ==
    last.op = "size" => last.ret = LogicalSizeOf(Len(under))

\* a full block followed by a one-byte block
C10_Witness ==
    /\ last.op = "size"
    /\ Len(under) > 32 + m_iv_size + m_block_size + 16
    /\ last.ret = m_block_size + 1

----------------------------------------------------------------------------
\* the stored bytes of block b differ from the record written there in
\* exactly one bit
OneBitChanged(b) ==
    /\ origin[b] # NoRecord
    /\ LET was == origin[b].bytes
           now == StreamRead(under, origin[b].off, Len(was))
       IN  /\ Len(now) = Len(was)
           /\ \E i \in 1..Len(was) :
                /\ XorByte(now[i], was[i]) \in {1, 2, 4, 8, 16, 32, 64, 128}
                /\ \A j \in 1..Len(was) : j # i => now[j] = was[j]

(* C5: with check set, a read_block of a block whose written record has    *)
(* had one bit of its IV, ciphertext or tag changed fails with             *)
(* MessageVerification.                                                    *)

C5_TamperDetected ==
    (last.op = "read_block" /\ m_check /\ OneBitChanged(last.block)) =>
        last.err = MessageVerification

\* the flipped bit was the only bit set in the IV: the stored IV is all zeros
C5_Witness ==
    /\ last.op = "read_block"
    /\ m_check
    /\ OneBitChanged(last.block)
    /\ origin[last.block].key = m_session_key
    /\ origin[last.block].id = m_id
    /\ origin[last.block].block = last.block
    /\ is_all_zeros(StreamRead(under, origin[last.block].off, m_iv_size))
    /\ last.err = MessageVerification

(* C6: with check set, a record written for (id, block i) that is stored,  *)
(* byte for byte, at block j # i or in a file opened under another id with *)
(* the same session key fails read_block with MessageVerification.         *)

C6_BoundToIdAndBlock ==
    ( /\ last.op = "read_block"
      /\ m_check
      /\ RecordStored(last.block)
      /\ origin[last.block].key = m_session_key
      /\ \/ origin[last.block].id # m_id
         \/ origin[last.block].block # last.block ) =>
        last.err = MessageVerification

\* a record of the same file, copied to another block where it ends the stream
C6_Witness ==
    /\ last.op = "read_block"
    /\ m_check
    /\ RecordStored(last.block)
    /\ origin[last.block].key = m_session_key
    /\ origin[last.block].id = m_id
    /\ origin[last.block].block # last.block
    /\ Len(StoredBlock(last.block)) = Len(origin[last.block].bytes)
    /\ last.err = MessageVerification

----------------------------------------------------------------------------
(* C7: once an empty stream was opened with master key K, giving session   *)
(* key S, every later open of the stream with K succeeds and recovers S.   *)

C7_HeaderRoundTrip ==
    (last.op = "open" /\ created # NoHeader /\ last.input = created.master) =>
        /\ last.err = NoError
        /\ m_session_key = created.session

\* every record written so far was written under the file's own session key
WrittenUnderFileKey ==
    \A b \in Blocks : origin[b] = NoRecord \/ origin[b].key = created.session

\* the instance was opened with another master key than the file's
WrongMasterKey ==
    /\ m_open
    /\ HeaderIntact
    /\ master # created.master
    /\ WrittenUnderFileKey

(* C8 as stated: reopened with another master key and check set, the       *)
(* session key differs and read_block fails with MessageVerification on    *)
(* every block that stores more than iv_size + 16 bytes.                   *)

C8_WrongKeyFailsEveryBlock ==
    (last.op = "read_block" /\ WrongMasterKey /\ m_check
        /\ Len(StoredBlock(last.block)) > m_iv_size + 16) =>
        /\ m_session_key # created.session
        /\ last.err = MessageVerification

(* C8 amended: reopened with another master key and check set, the session *)
(* key differs and read_block fails with MessageVerification on every      *)
(* block that stores more than iv_size + 16 bytes which are not all zero.  *)

C8_WrongKeyFailsEveryRecord ==
    (last.op = "read_block" /\ WrongMasterKey /\ m_check
        /\ Len(StoredBlock(last.block)) > m_iv_size + 16
        /\ ~is_all_zeros(StoredBlock(last.block))) =>
        /\ m_session_key # created.session
        /\ last.err = MessageVerification

C8_Witness ==
    /\ last.op = "read_block"
    /\ WrongMasterKey
    /\ m_check
    /\ RecordStored(last.block)
    /\ Len(StoredBlock(last.block)) = Len(origin[last.block].bytes)
    /\ last.err = MessageVerification

----------------------------------------------------------------------------
(* C9 as stated: a stored record whose first iv_size bytes are zero reads  *)
(* as block_size zero bytes without authentication, whatever its           *)
(* ciphertext and tag bytes are.                                           *)

C9_ZeroIvIsHole ==
    (last.op = "read_block"
        /\ Len(StoredBlock(last.block)) > m_iv_size + 16
        /\ is_all_zeros(SubSeq(StoredBlock(last.block), 1, m_iv_size))) =>
        /\ last.err = NoError
        /\ last.out = ZeroBlock

\* the record written for block b, a full block, with only its IV zeroed
IvZeroed(b) ==
    /\ origin[b] # NoRecord
    /\ Len(origin[b].bytes) = m_iv_size + m_block_size + 16
    /\ origin[b].off = LayoutOffset(b)
    /\ StoredBlock(b) = Zeros(m_iv_size)
                          \o SubSeq(origin[b].bytes, m_iv_size + 1, Len(origin[b].bytes))

(* C9 amended: a stored record all of whose bytes (IV, ciphertext and tag) *)
(* are zero reads as block_size zero bytes without authentication; a       *)
(* written full block whose IV alone was zeroed is authenticated, and with *)
(* check set read_block fails with MessageVerification.                    *)

C9_AllZeroIsHole ==
    (last.op = "read_block" /\ Len(StoredBlock(last.block)) > m_iv_size + 16) =>
        /\ is_all_zeros(StoredBlock(last.block)) =>
              /\ last.err = NoError
              /\ last.out = ZeroBlock
              /\ last.ret = Len(StoredBlock(last.block)) - m_iv_size - 16
        /\ (IvZeroed(last.block) /\ m_check) => last.err = MessageVerification

\* a hole before a written block, read with check set
C9_Witness ==
    /\ last.op = "read_block"
    /\ m_check
    /\ Len(StoredBlock(last.block)) > m_iv_size + 16
    /\ is_all_zeros(StoredBlock(last.block))
    /\ last.ret = m_block_size
    /\ last.out = ZeroBlock

----------------------------------------------------------------------------
\* the bytes stored for block b pass the authentication of read_block
Authentic(b) ==
    LET s == StoredBlock(b)
        rc == Len(s)
    IN  aes_gcm_decrypt(SubSeq(s, m_iv_size + 1, rc - 16), make_aad(m_id, b),
                        m_session_key, SubSeq(s, 1, m_iv_size),
                        SubSeq(s, rc - 15, rc)).success

(* C14: without check, read_block never fails with MessageVerification    *)
(* and returns rc - iv_size - 16 for a record of rc > iv_size + 16 bytes,  *)
(* authentic or not; with check, a record that is authenticated and fails  *)
(* raises MessageVerification.                                             *)

C14_CheckGatesVerification ==
    last.op = "read_block" =>
        LET s == StoredBlock(last.block)
        IN  /\ ~m_check => last.err # MessageVerification
            /\ (~m_check /\ Len(s) > m_iv_size + 16) =>
                  /\ last.err = NoError
                  /\ last.ret = Len(s) - m_iv_size - 16
            /\ (m_check /\ Len(s) > m_iv_size + 16 /\ ~is_all_zeros(s)
                    /\ ~Authentic(last.block)) =>
                  last.err = MessageVerification

\* a written record with one bit flipped, read without check
C14_Witness ==
    /\ last.op = "read_block"
    /\ ~m_check
    /\ OneBitChanged(last.block)
    /\ Len(StoredBlock(last.block)) > m_iv_size + 16
    /\ ~is_all_zeros(StoredBlock(last.block))
    /\ ~Authentic(last.block)
    /\ last.err = NoError
    /\ last.ret = Len(StoredBlock(last.block)) - m_iv_size - 16

----------------------------------------------------------------------------
(* C16: the record write_block stored for a block starts with an IV that   *)
(* is not all zeros, and while that record is in the stream read_block     *)
(* does not take it for a sparse hole.                                     *)

C16_WrittenIvNonZero ==
    \A b \in Blocks :
        origin[b] # NoRecord =>
            /\ ~is_all_zeros(SubSeq(origin[b].bytes, 1, origin[b].iv_size))
            /\ (m_open /\ RecordStored(b) /\ origin[b].off = LayoutOffset(b)) =>
                  ~read_is_hole(StoredBlock(b), m_iv_size)

\* an all-zero plaintext, written and read back as a record
C16_Witness ==
    /\ last.op = "read_block"
    /\ RecordStored(last.block)
    /\ origin[last.block].off = LayoutOffset(last.block)
    /\ Len(StoredBlock(last.block)) = Len(origin[last.block].bytes)
    /\ ~read_is_hole(StoredBlock(last.block), m_iv_size)
    /\ last.err = NoError
    /\ last.ret > 0
    /\ is_all_zeros(SubSeq(last.out, 1, last.ret))

----------------------------------------------------------------------------
(* One instance with check set: the calls that read and change the        *)
(* stream.                                                                 *)

NextFrame ==
    \/ Open({KeyOf(1)}, {IdOf(1)}, {TRUE})
    \/ ReadBlock
    \/ WriteBlock(TwoPlaintexts)
    \/ Size
    \/ AdjustLogicalSize

SpecFrame == Init /\ [][NextFrame]_vars

(* C18: a write_block(b, in, n) step stores IV || n ciphertext bytes ||     *)
(* 16-byte tag at offset 32 + b * underlying_block_size, keeps every byte  *)
(* the stream held outside that range, fills a gap before the record with  *)
(* zeros, and leaves the stream at least as long as it was.                *)

C18_WriteFrame ==
    [][ (last'.op = "write_block" /\ ops' = ops + 1) =>
          LET off == LayoutOffset(last'.block)
              len == m_iv_size + last'.arg + 16
              rec == SubSeq(under', off + 1, off + len)
              iv == SubSeq(rec, 1, m_iv_size)
              enc == aes_gcm_encrypt(last'.input, make_aad(m_id, last'.block),
                                     m_session_key, iv)
          IN  /\ Len(under') = Max(Len(under), off + len)
              /\ rec = iv \o enc.ciphertext \o enc.mac
              /\ \A i \in 1..Len(under') :
                    (i <= off \/ i > off + len) =>
                        under'[i] = IF i <= Len(under) THEN under[i] ELSE 0 ]_vars

\* a short record written to block 0 while block 1 holds a record
C18_Witness ==
    /\ last.op = "write_block"
    /\ last.block = 0
    /\ last.arg < m_block_size
    /\ last.pre > LayoutOffset(1)
    /\ Len(under) = last.pre
    /\ RecordStored(0)
    /\ RecordStored(1)
    /\ HeaderIntact

----------------------------------------------------------------------------
(* C19: a read_block or size step, returning or throwing, leaves the       *)
(* underlying stream and the session key as they were; a read_block(b)     *)
(* right after a read_block(b) has the same outcome.                       *)

C19_ReadOnly ==
    [][ /\ last'.op \in {"read_block", "size"} =>
              /\ under' = under
              /\ m_session_key' = m_session_key
        /\ (last.op = "read_block" /\ last'.op = "read_block"
                /\ last'.block = last.block) => last' = last ]_vars

\* a read that failed the authentication
C19_Witness ==
    /\ last.op = "read_block"
    /\ last.err = MessageVerification
    /\ Len(under) = last.pre
    /\ ReadNow(last.block).err = MessageVerification

----------------------------------------------------------------------------
(* C20: an open step changes the stream only when it is empty and the open *)
(* succeeds, and then the stream becomes the 32 bytes session key XOR      *)
(* master key; every other open, in particular one of a stream with a      *)
(* header, leaves the stream as it was; while the instance lives its       *)
(* session key stays the one fixed at open.                                *)

C20_OpenWrites ==
    [][ /\ (~m_open /\ last'.op = "open") =>
              IF Len(under) = 0 /\ last'.err = NoError
              THEN under' = byte_xor(m_session_key', last'.input)
              ELSE under' = under
        /\ (m_open /\ m_open') => m_session_key' = m_session_key ]_vars

\* a file with a record, reopened under the other master key
C20_Witness ==
    /\ last.op = "open"
    /\ last.pre > 32
    /\ Len(under) = last.pre
    /\ m_open
    /\ master # created.master
    /\ HeaderIntact
    /\ \E b \in Blocks : RecordStored(b)

----------------------------------------------------------------------------
(* The constructor called with any arguments on any stored file.           *)

\* IV sizes and block sizes around the limits the constructor checks
AnyIvSizes == {MinIvSize - 1, MinIvSize, MaxIvSize, MaxIvSize + 1}
AnyBlockSizes == {MinBlockSize - 1, MinBlockSize}

\* what the file holds before the first open: nothing, a truncated header,
\* a header, a header and a few more bytes
StoredFiles ==
    { <<>>, Fill(1, 7), Fill(KeySize - 1, 7),
      ctor_new_header(KeyOf(5), KeyOf(1)),
      ctor_new_header(KeyOf(5), KeyOf(1)) \o Fill(3, 9) }

InitCtor ==
    /\ under \in StoredFiles
    /\ m_open = FALSE
    /\ m_session_key = <<>>
    /\ m_id = <<>>
    /\ m_iv_size = 0
    /\ m_block_size = 0
    /\ m_check = FALSE
    /\ master = <<>>
    /\ created = NoHeader
    /\ origin = [b \in Blocks |-> NoRecord]
    /\ ops = 0
    /\ logical = 0
    /\ last = Call("init", NoReturn, 0, <<>>, 0, Outcome(0, <<>>, NoError))

\* new LiteAESGCMCryptStream(stream, master_key, id, block_size, iv_size, check)
\* with a null stream when has_stream is FALSE; the call is recorded with
\* block_size, iv_size, master_key and the size of the stream handed in
\* (NoReturn for a null stream)
Construct(master_keys, ids, checks, block_sizes, iv_sizes, streams) ==
    /\ ~m_open
    /\ \E master_key \in master_keys, id \in ids, check \in checks,
          block_size \in block_sizes, iv_size \in iv_sizes,
          has_stream \in streams, random \in RandomKeys :
        LET c == Constructor(under, has_stream, master_key, block_size, iv_size, random)
        IN  /\ under' = c.stream
            /\ m_open' = (c.err = NoError)
            /\ last' = Call("open", block_size, iv_size, master_key,
                            IF has_stream THEN Len(under) ELSE NoReturn,
                            Outcome(0, <<>>, c.err))
            /\ IF c.err = NoError
               THEN /\ m_session_key' = c.session_key
                    /\ m_id' = id
                    /\ m_iv_size' = iv_size
                    /\ m_block_size' = block_size
                    /\ m_check' = check
                    /\ master' = master_key
                    /\ created' = IF Len(under) = 0
                                  THEN [master |-> master_key, session |-> c.session_key]
                                  ELSE created
               ELSE UNCHANGED <<m_session_key, m_id, m_iv_size, m_block_size,
                                m_check, master, created>>
    /\ UNCHANGED <<origin, ops, logical>>

NextCtor ==
    \/ Construct(MasterKeys, Ids, BOOLEAN, AnyBlockSizes, AnyIvSizes, BOOLEAN)
    \/ Close

SpecCtor == InitCtor /\ [][NextCtor]_vars

(* C12: a constructor call with iv_size < 12, iv_size > 32, a null stream  *)
(* or block_size < 32 throws InvalidArgument, makes no instance and leaves *)
(* the underlying stream as it was.                                        *)

C12_ArgumentsRejected ==
    [][ ( /\ ~m_open
          /\ last'.op = "open"
          /\ \/ last'.arg < 12
             \/ last'.arg > 32
             \/ last'.pre = NoReturn
             \/ last'.block < 32 ) =>
          /\ last'.err = InvalidArgument
          /\ under' = under
          /\ ~m_open'
          /\ created' = created ]_vars

\* an IV size of 33 on an empty stream: no header is written
C12_Witness ==
    /\ last.op = "open"
    /\ last.arg > 32
    /\ last.block >= 32
    /\ last.pre = 0
    /\ last.err = InvalidArgument
    /\ under = <<>>
    /\ ~m_open

(* C13: a constructor call on a stream of 1..31 bytes throws               *)
(* InvalidArgument, leaves the stream as it was, and no session key comes  *)
(* into being.                                                             *)

C13_TruncatedHeaderRejected ==
    [][ (~m_open /\ last'.op = "open" /\ last'.pre \in 1..31) =>
          /\ last'.err = InvalidArgument
          /\ under' = under
          /\ ~m_open'
          /\ m_session_key' = <<>>
          /\ created' = created ]_vars

\* valid arguments on a stream of 31 bytes
C13_Witness ==
    /\ last.op = "open"
    /\ last.arg \in 12..32
    /\ last.block >= 32
    /\ last.pre = 31
    /\ last.err = InvalidArgument
    /\ Len(under) = 31
    /\ ~m_open
    /\ m_session_key = <<>>

----------------------------------------------------------------------------
(* A file of 64-byte blocks, opened under either master key, with and      *)
(* without check: the stream can end inside a block with more than         *)
(* iv_size + 16 bytes of it stored.                                        *)

WideBlockSizes == {2 * MinBlockSize}

NextWide ==
    \/ Construct(MasterKeys, {IdOf(1)}, BOOLEAN, WideBlockSizes, IvSizes, {TRUE})
    \/ Close
    \/ ReadBlock
    \/ WriteBlock(OnePlaintext)
    \/ AdjustLogicalSize

SpecWide == Init /\ [][NextWide]_vars

(* C15: when the rc bytes read for a block are all zero and                *)
(* iv_size + 16 < rc <= underlying_block_size, read_block returns          *)
(* rc - iv_size - 16 without error and the whole output of block_size      *)
(* bytes is zero, under every key, id, block number and value of check.    *)

C15_HoleDecoding ==
    LET s == StoredBlock(last.block)
    IN  ( /\ last.op = "read_block"
          /\ Len(s) > m_iv_size + 16
          /\ Len(s) <= m_iv_size + m_block_size + 16
          /\ is_all_zeros(s) ) =>
            /\ last.err = NoError
            /\ last.ret = Len(s) - m_iv_size - 16
            /\ last.out = ZeroBlock

\* a hole that ends inside its block, read with check set under a master
\* key that is not the file's
C15_Witness ==
    /\ last.op = "read_block"
    /\ m_check
    /\ created # NoHeader
    /\ master # created.master
    /\ is_all_zeros(StoredBlock(last.block))
    /\ Len(StoredBlock(last.block)) > m_iv_size + 16
    /\ Len(StoredBlock(last.block)) < m_iv_size + m_block_size + 16
    /\ last.ret \in 1..(m_block_size - 1)
    /\ last.out = ZeroBlock

(* C17: read_block(b) returns 0, without error, when the stream holds at   *)
(* most iv_size + 16 bytes of block b; when it holds the whole underlying  *)
(* block the call returns block_size unless it throws MessageVerification  *)
(* under check; a return value in 1..block_size-1 is rc - iv_size - 16 for *)
(* a block at which the stream ends.                                       *)

C17_ReturnValues ==
    last.op = "read_block" =>
        LET rc == Len(StoredBlock(last.block))
        IN  /\ rc <= m_iv_size + 16 => (last.ret = 0 /\ last.err = NoError)
            /\ rc = m_iv_size + m_block_size + 16 =>
                  IF last.err = NoError THEN last.ret = m_block_size
                  ELSE m_check /\ last.err = MessageVerification
            /\ (last.err = NoError /\ last.ret \in 1..(m_block_size - 1)) =>
                  /\ LayoutOffset(last.block) + rc = Len(under)
                  /\ last.ret = rc - m_iv_size - 16

\* a block of which the stream holds too few bytes for a record, read with
\* check set
C17_Witness ==
    /\ last.op = "read_block"
    /\ m_check
    /\ Len(StoredBlock(last.block)) \in 1..(m_iv_size + 16)
    /\ last.ret = 0
    /\ last.err = NoError

----------------------------------------------------------------------------
(* BlockBasedStream: the engine that turns write(buf, offset, len) and     *)
(* resize(new_size) on the plaintext view into read_block, write_block and *)
(* adjust_logical_size calls on the instance (m_session_key, m_id,         *)
(* m_block_size, m_iv_size, m_check).  Every write_block of one call uses  *)
(* the IV given.  A call gives the stream afterwards and the exception.    *)

Done(stream, err) == [stream |-> stream, err |-> err]

\* the element of a one-element set: { e(x) : x \in {v} } computes v once
The(S) == CHOOSE x \in S : TRUE

engine_read_block(stream, b) ==
    read_block(stream, m_session_key, m_id, m_block_size, m_iv_size, m_check, b,
               Zeros(m_block_size))

engine_write_block(stream, b, input, iv) ==
    write_block(stream, m_session_key, m_id, m_block_size, m_iv_size, b, input, iv)

\* the part of write(data, offset, Len(data)) that falls into block b: a
\* whole block is written as it is, a partial block is read into a zeroed
\* scratch buffer, overlaid and written back
engine_write_one(stream, b, data, offset, iv) ==
    LET lo == Max(offset, b * m_block_size) - b * m_block_size
        hi == Min(offset + Len(data), (b + 1) * m_block_size) - b * m_block_size
        from == b * m_block_size + lo - offset
        part == SubSeq(data, from + 1, from + hi - lo)
    IN  IF lo = 0 /\ hi = m_block_size
        THEN Done(engine_write_block(stream, b, part, iv), NoError)
        ELSE The({ IF r.err # NoError THEN Done(stream, r.err)
                   ELSE The({ Done(engine_write_block(stream, b, scratch, iv), NoError) :
                              scratch \in { SubSeq(SubSeq(r.out, 1, lo) \o part
                                                     \o SubSeq(r.out, hi + 1, m_block_size),
                                                   1, Max(r.ret, hi)) } }) :
                   r \in {engine_read_block(stream, b)} })

RECURSIVE engine_write_from(_, _, _, _, _)
engine_write_from(stream, b, data, offset, iv) ==
    IF b * m_block_size >= offset + Len(data) THEN Done(stream, NoError)
    ELSE The({ IF w.err # NoError THEN w
               ELSE engine_write_from(w.stream, b + 1, data, offset, iv) :
               w \in {engine_write_one(stream, b, data, offset, iv)} })

\* the last block is read into a zeroed scratch buffer and written back
\* with n bytes: cut to n, or extended with zeros to n
engine_rewrite(stream, b, n, iv) ==
    The({ IF r.err # NoError THEN Done(stream, r.err)
          ELSE The({ Done(engine_write_block(stream, b, scratch, iv), NoError) :
                     scratch \in {SubSeq(r.out, 1, n)} }) :
          r \in {engine_read_block(stream, b)} })

\* resize(new_size): shrinking cuts the block new_size falls into, growing
\* extends the last partial block with zeros; then adjust_logical_size
engine_resize(stream, new_size, iv) ==
    LET current == size(stream, m_block_size, m_iv_size)
        b == Min(current, new_size) \div m_block_size
        residue == Min(current, new_size) % m_block_size
        n == IF new_size < current THEN residue
             ELSE Min(m_block_size, new_size - b * m_block_size)
    IN  IF new_size = current THEN Done(stream, NoError)
        ELSE The({ IF w.err # NoError THEN w
                   ELSE Done(adjust_logical_size(w.stream, m_block_size, m_iv_size,
                                                 new_size), NoError) :
                   w \in { IF residue > 0 THEN engine_rewrite(stream, b, n, iv)
                           ELSE Done(stream, NoError) } })

\* write(data, offset, Len(data)): a write that starts past the end grows
\* the stream to offset first
engine_write(stream, data, offset, iv) ==
    The({ IF g.err # NoError THEN g
          ELSE engine_write_from(g.stream, offset \div m_block_size, data, offset, iv) :
          g \in { IF offset > size(stream, m_block_size, m_iv_size)
                  THEN engine_resize(stream, offset, iv)
                  ELSE Done(stream, NoError) } })

\* (offset, len) of the writes: inside block 0, across both blocks, a whole
\* block, inside block 1
EngineWrites == {<<0, 3>>, <<0, 100>>, <<0, 64>>, <<70, 5>>}
\* arguments of resize
EngineSizes == {1, 64, 100, 200}

\* the logical size after a call: no longer followed once a call has failed
LogicalAfter(asked, err) ==
    IF logical = NoReturn \/ err # NoError THEN NoReturn ELSE asked

EngineWrite ==
    /\ m_open
    /\ ops < MaxOps
    /\ ops' = ops + 1
    /\ \E w \in EngineWrites, iv \in RandomIvs(m_iv_size) :
        /\ write_iv_accepted(iv)
        /\ \E d \in {engine_write(under, Plaintext(11, w[2]), w[1], iv)} :
            /\ under' = d.stream
            /\ logical' = LogicalAfter(Max(logical, w[1] + w[2]), d.err)
            /\ last' = Call("write", NoReturn, w[1], Plaintext(11, w[2]), Len(under),
                            Outcome(0, <<>>, d.err))
    /\ UNCHANGED <<m_open, m_session_key, m_id, m_iv_size, m_block_size, m_check,
                   master, created, origin>>

EngineResize ==
    /\ m_open
    /\ ops < MaxOps
    /\ ops' = ops + 1
    /\ \E new_size \in EngineSizes, iv \in RandomIvs(m_iv_size) :
        /\ write_iv_accepted(iv)
        /\ \E d \in {engine_resize(under, new_size, iv)} :
            /\ under' = d.stream
            /\ logical' = LogicalAfter(new_size, d.err)
            /\ last' = Call("resize", NoReturn, new_size, <<>>, Len(under),
                            Outcome(0, <<>>, d.err))
    /\ UNCHANGED <<m_open, m_session_key, m_id, m_iv_size, m_block_size, m_check,
                   master, created, origin>>

\* One instance on a fresh file of 64-byte blocks, used through the engine.
NextEngine ==
    \/ Construct({KeyOf(1)}, {IdOf(1)}, BOOLEAN, WideBlockSizes, IvSizes, {TRUE})
    \/ Close
    \/ EngineWrite
    \/ EngineResize
    \/ Size

SpecEngine == Init /\ [][NextEngine]_vars

(* C11: on a file that was opened empty and is used through write and      *)
(* resize alone, size() is the largest offset + len written, or the length *)
(* of the last resize if that came later.                                  *)

C11_SizeLaw ==
    (m_open /\ logical # NoReturn) =>
        size(under, m_block_size, m_iv_size) = logical

====
